---- MODULE Spec2Model ----
(***************************************************************************)
(* A model of the Reddit analytics library: RedditPost / SponsoredPost,    *)
(* PostValidator, PostCategorizer (Project 2, library_functions.py),       *)
(* KeywordCategorizer (Project 3, Project_03.py) and TrendAnalyzer.        *)
(*                                                                         *)
(* Text is a sequence of one-character strings.  Python values that reach  *)
(* a type check are records [t, n, s]: the type tag, the numeric payload   *)
(* and the text payload.  Non-integral numbers (float weights, means and   *)
(* percentage changes) are exact fractions [num, den].                     *)
(***************************************************************************)
EXTENDS Integers, Sequences, FiniteSets, TLC

VARIABLES posts, categorizer, weekly, ret, other, view

vars == <<posts, categorizer, weekly, ret, other, view>>

-----------------------------------------------------------------------------
(* Bounds of the model *)

MaxTitleLen == 3
MaxPosts == 2
MaxWeeks == 2
MaxCount == 2
MaxScore == 2
MaxHalfWeight == 6
MaxCats == 2
MaxTop == 3

-----------------------------------------------------------------------------
(* Characters and the classes the regular expressions \w and \s give them *)

LowerSeq == <<"a", "b", "c", "d", "e", "f", "g", "h", "i", "j", "k", "l", "m",
              "n", "o", "p", "q", "r", "s", "t", "u", "v", "w", "x", "y", "z">>
UpperSeq == <<"A", "B", "C", "D", "E", "F", "G", "H", "I", "J", "K", "L", "M",
              "N", "O", "P", "Q", "R", "S", "T", "U", "V", "W", "X", "Y", "Z">>
LowerLetters == {LowerSeq[i] : i \in 1..26}
UpperLetters == {UpperSeq[i] : i \in 1..26}
DigitChars == {"0", "1", "2", "3", "4", "5", "6", "7", "8", "9"}
SpaceChars == {" ", "\t", "\n"}
\* punctuation characters of string.punctuation; the underscore is one of them
PunctChars == {"!", "#", "%", "&", "+", ",", "-", ".", "/", ":", ";", "=", "?", "@", "_"}

\* \w of Python's re on str: letters, digits and the underscore
IsWordChar(c) == c \in LowerLetters \cup UpperLetters \cup DigitChars \cup {"_"}

\* \s of Python's re
IsSpaceChar(c) == c \in SpaceChars

\* str.lower() on one character
LowerChar(c) ==
    IF c \in UpperLetters THEN LowerSeq[CHOOSE i \in 1..26 : UpperSeq[i] = c] ELSE c

lower(s) == [i \in 1..Len(s) |-> LowerChar(s[i])]

\* re.sub(r"[^\w\s]", " ", s)
SubNonWord(s) ==
    [i \in 1..Len(s) |-> IF IsWordChar(s[i]) \/ IsSpaceChar(s[i]) THEN s[i] ELSE " "]

RECURSIVE DropSpaces(_)
DropSpaces(s) ==
    IF s = <<>> THEN <<>>
    ELSE IF IsSpaceChar(Head(s)) THEN DropSpaces(Tail(s)) ELSE s

\* re.sub(r"\s+", " ", s)
RECURSIVE CollapseSpaces(_)
CollapseSpaces(s) ==
    IF s = <<>> THEN <<>>
    ELSE IF IsSpaceChar(Head(s))
         THEN <<" ">> \o CollapseSpaces(DropSpaces(s))
         ELSE <<Head(s)>> \o CollapseSpaces(Tail(s))

RECURSIVE DropTrailingSpaces(_)
DropTrailingSpaces(s) ==
    IF s = <<>> THEN <<>>
    ELSE IF IsSpaceChar(s[Len(s)]) THEN DropTrailingSpaces(SubSeq(s, 1, Len(s) - 1)) ELSE s

\* str.strip()
strip(s) == DropTrailingSpaces(DropSpaces(s))

-----------------------------------------------------------------------------
(* Python values *)

PyInt(k) == [t |-> "int", n |-> k, s |-> <<>>]
PyBool(b) == [t |-> "bool", n |-> IF b THEN 1 ELSE 0, s |-> <<>>]
PyStr(x) == [t |-> "str", n |-> 0, s |-> x]
PyFloat(k) == [t |-> "float", n |-> k, s |-> <<>>]
PyNone == [t |-> "NoneType", n |-> 0, s |-> <<>>]

\* isinstance(v, int): bool is a subclass of int
IsInstanceInt(v) == v.t \in {"int", "bool"}
IsInstanceBool(v) == v.t = "bool"
IsInstanceStr(v) == v.t = "str"

\* the truth value Python gives v ("not v" is its negation)
Truthy(v) ==
    CASE v.t = "str" -> v.s # <<>>
      [] v.t = "NoneType" -> FALSE
      [] OTHER -> v.n # 0

None == <<>>
Some(x) == <<x>>

-----------------------------------------------------------------------------
(* Fractions *)

Abs(x) == IF x < 0 THEN -x ELSE x

RECURSIVE Gcd(_, _)
Gcd(a, b) == IF b = 0 THEN a ELSE Gcd(b, a % b)

\* a / b for b # 0, in lowest terms with a positive denominator
Frac(a, b) ==
    LET g == Gcd(Abs(a), Abs(b))
        sgn == IF b < 0 THEN -1 ELSE 1
    IN [num |-> sgn * (a \div g), den |-> sgn * (b \div g)]

\* float("inf")
Inf == [num |-> 1, den |-> 0]

\* round(n / d) for d > 0: Python rounds a tie to the even neighbour
round(n, d) ==
    LET q == n \div d
        r == n % d
    IN IF 2 * r < d THEN q
       ELSE IF 2 * r > d THEN q + 1
       ELSE IF q % 2 = 0 THEN q ELSE q + 1

-----------------------------------------------------------------------------
(* RedditPost and SponsoredPost *)

PostKinds == {"RedditPost", "SponsoredPost"}

\* the checks of RedditPost.__init__, in the order the code makes them
InitRaises(title, body, score, num_comments, created_utc) ==
    \/ ~Truthy(title) \/ ~IsInstanceStr(title)
    \/ ~IsInstanceInt(score) \/ IsInstanceBool(score)
    \/ ~IsInstanceInt(num_comments) \/ IsInstanceBool(num_comments)
    \/ ~IsInstanceInt(created_utc) \/ created_utc.n < 0

\* the object RedditPost.__init__ leaves when it does not raise
MakePost(kind, title, body, score, num_comments, created_utc) ==
    [kind |-> kind,
     title |-> title,
     body |-> IF body = PyNone THEN PyStr(<<>>) ELSE body,
     score |-> score,
     num_comments |-> num_comments,
     created_utc |-> created_utc,
     cleaned_text |-> None]

\* the default weights of engagement_score, by the class of the post
DefaultWeightsNoOverride(kind) == <<Frac(1, 1), Frac(2, 1)>>
DefaultWeights(kind) ==
    IF kind = "SponsoredPost"
    THEN <<Frac(1, 1), Frac(3, 1)>> ELSE <<Frac(1, 1), Frac(2, 1)>>

\* int(round(score * w_upvote + num_comments * w_comment))
engagement_score(p, w_upvote, w_comment) ==
    round(p.score.n * w_upvote.num * w_comment.den
              + p.num_comments.n * w_comment.num * w_upvote.den,
          w_upvote.den * w_comment.den)

engagement_score_default(p) ==
    engagement_score(p, DefaultWeights(p.kind)[1], DefaultWeights(p.kind)[2])

\* the string clean_text computes when nothing is cached
ComputeCleanText(p) ==
    strip(CollapseSpaces(SubNonWord(lower(p.title.s \o <<" ">> \o p.body.s))))

\* what clean_text returns
clean_text(p) ==
    IF p.cleaned_text # None THEN p.cleaned_text[1] ELSE ComputeCleanText(p)

\* the post after a call of clean_text
AfterCleanTextInTitle(p) == [p EXCEPT !.title = PyStr(clean_text(p))]
AfterCleanText(p) == [p EXCEPT !.cleaned_text = Some(clean_text(p))]

\* to_dict: the raw fields and the default engagement score; the class of the
\* post is not among the keys
to_dict(p) ==
    [title |-> p.title, body |-> p.body, score |-> p.score,
     num_comments |-> p.num_comments, created_utc |-> p.created_utc,
     engagement |-> PyInt(engagement_score_default(p))]

\* json.dump of a Python value: a JSON string, number, true, false or null
JsonDump(v) ==
    CASE v.t = "str" -> [j |-> "string", text |-> v.s, num |-> 0, frac |-> FALSE]
      [] v.t = "int" -> [j |-> "number", text |-> <<>>, num |-> v.n, frac |-> FALSE]
      [] v.t = "float" -> [j |-> "number", text |-> <<>>, num |-> v.n, frac |-> TRUE]
      [] v.t = "bool" -> [j |-> IF v.n = 1 THEN "true" ELSE "false",
                          text |-> <<>>, num |-> 0, frac |-> FALSE]
      [] OTHER -> [j |-> "null", text |-> <<>>, num |-> 0, frac |-> FALSE]

\* json.load of a JSON value
JsonLoad(x) ==
    CASE x.j = "string" -> PyStr(x.text)
      [] x.j = "number" -> IF x.frac THEN PyFloat(x.num) ELSE PyInt(x.num)
      [] x.j = "true" -> PyBool(TRUE)
      [] x.j = "false" -> PyBool(FALSE)
      [] OTHER -> PyNone

\* DataStore.save_posts: the JSON array written for the posts
save_posts(ps) ==
    [i \in 1..Len(ps) |->
        LET d == to_dict(ps[i]) IN [k \in DOMAIN d |-> JsonDump(d[k])]]

\* DataStore.load_posts on a JSON array: a RedditPost for every element
load_posts(data) ==
    [i \in 1..Len(data) |->
        LET d == [k \in DOMAIN data[i] |-> JsonLoad(data[i][k])]
        IN MakePost("RedditPost", d.title, d.body, d.score, d.num_comments,
                    d.created_utc)]

-----------------------------------------------------------------------------
(* PostValidator.validate_post_data *)

RequiredFields == <<"title", "score", "num_comments", "created_utc">>
RequiredType(key) == IF key = "title" THEN "str" ELSE "int"

IsInstance(v, t) == IF t = "int" THEN IsInstanceInt(v) ELSE v.t = t

\* one round of the loop over the required fields
FieldRaises(d, key) ==
    \/ key \notin DOMAIN d
    \/ /\ ~IsInstance(d[key], RequiredType(key))
       /\ \/ RequiredType(key) = "int" /\ IsInstanceBool(d[key])
          \/ ~IsInstance(d[key], RequiredType(key))

validate_post_data_raises(rec) ==
    \/ ~rec.isdict
    \/ \E i \in 1..Len(RequiredFields) : FieldRaises(rec.d, RequiredFields[i])

-----------------------------------------------------------------------------
(* PostCategorizer (Project 2) and KeywordCategorizer (Project 3).  A     *)
(* category table is a dict: here the sequence of its entries, in          *)
(* insertion order, with distinct names.                                   *)

DefaultCategories ==
    <<
       [name |-> "question",
        kws |-> <<<<"h", "o", "w">>,
                  <<"w", "h", "a", "t">>,
                  <<"w", "h", "y">>,
                  <<"h", "e", "l", "p">>,
                  <<"q", "u", "e", "s", "t", "i", "o", "n">>>>],
       [name |-> "news",
        kws |-> <<<<"b", "r", "e", "a", "k", "i", "n", "g">>,
                  <<"a", "n", "n", "o", "u", "n", "c", "e", "m", "e", "n", "t">>,
                  <<"n", "e", "w", "s">>>>],
       [name |-> "discussion",
        kws |-> <<<<"d", "i", "s", "c", "u", "s", "s", "i", "o", "n">>,
                  <<"d", "e", "b", "a", "t", "e">>,
                  <<"o", "p", "i", "n", "i", "o", "n">>>>],
       [name |-> "meme",
        kws |-> <<<<"m", "e", "m", "e">>,
                  <<"f", "u", "n", "n", "y">>,
                  <<"l", "o", "l">>>>],
       [name |-> "advice",
        kws |-> <<<<"a", "d", "v", "i", "c", "e">>,
                  <<"r", "e", "c", "o", "m", "m", "e", "n", "d">>,
                  <<"s", "h", "o", "u", "l", "d", " ", "i">>>>],
       [name |-> "other",
        kws |-> <<>>]
    >>

\* PostCategorizer.__init__: the argument is used unless it is None
PostCategorizer_init(arg) ==
    [cls |-> "PostCategorizer",
     categories |-> IF arg # None THEN arg[1] ELSE DefaultCategories]

\* KeywordCategorizer.__init__: the argument is used unless it is falsy
KeywordCategorizer_init(arg) ==
    [cls |-> "KeywordCategorizer",
     categories |-> IF arg # None /\ arg[1] # <<>> THEN arg[1] ELSE DefaultCategories]

\* \b at offset k of text (between text[k] and text[k+1])
WordBoundary(text, k) ==
    LET before == k >= 1 /\ IsWordChar(text[k])
        after == k < Len(text) /\ IsWordChar(text[k + 1])
    IN before # after

\* re.search(r"\b" + re.escape(kw) + r"\b", text) finds a match
SearchWord(kw, text) ==
    \E i \in 0..(Len(text) - Len(kw)) :
        /\ SubSeq(text, i + 1, i + Len(kw)) = kw
        /\ WordBoundary(text, i)
        /\ WordBoundary(text, i + Len(kw))

\* the number of keywords of kws that hit; the keyword is lowercased first
\* by PostCategorizer and used as stored by KeywordCategorizer
CountHits(cls, kws, cleaned) ==
    Cardinality({k \in 1..Len(kws) :
        SearchWord(IF cls = "PostCategorizer" THEN lower(kws[k]) ELSE kws[k], cleaned)})

\* the dict hits, in insertion order
Hits(c, cleaned) ==
    [i \in 1..Len(c.categories) |->
        [cat |-> c.categories[i].name,
         n |-> CountHits(c.cls, c.categories[i].kws, cleaned)]]

\* max(hits.items(), key=lambda kv: kv[1]): the first entry of the largest count
ArgMaxLast(h) ==
    CHOOSE i \in 1..Len(h) :
        /\ \A j \in 1..Len(h) : h[j].n <= h[i].n
        /\ \A j \in (i + 1)..Len(h) : h[j].n < h[i].n
ArgMax(h) ==
    CHOOSE i \in 1..Len(h) :
        /\ \A j \in 1..Len(h) : h[j].n <= h[i].n
        /\ \A j \in 1..(i - 1) : h[j].n < h[i].n

\* categorize: the exception it raises ("" for none) and the value it returns
categorize(c, p) ==
    LET h == Hits(c, clean_text(p))
        best == h[ArgMax(h)]
    IN IF h = <<>> THEN [exc |-> "ValueError", val |-> ""]
       ELSE [exc |-> "", val |-> IF best.n = 0 THEN "other" ELSE best.cat]

\* a category name as the table keeps it
RECURSIVE NameOf(_)
NameOf(s) == IF s = <<>> THEN "" ELSE Head(s) \o NameOf(Tail(s))

\* table[name] = kws: an existing key keeps its place, a new key goes last
SetItemMoveToEnd(table, name, kws) ==
    Append(SelectSeq(table, LAMBDA e : e.name # name), [name |-> name, kws |-> kws])
SetItem(table, name, kws) ==
    IF \E i \in 1..Len(table) : table[i].name = name
    THEN [i \in 1..Len(table) |->
            IF table[i].name = name THEN [name |-> name, kws |-> kws] ELSE table[i]]
    ELSE Append(table, [name |-> name, kws |-> kws])

\* add_category(name, keywords) on a table: name is a Python value, keywords
\* a Python value of type t ("list", "tuple", "NoneType") with the given
\* items; k.lower() raises AttributeError for an item that is no str, before
\* anything is assigned
add_category(table, name, keywords) ==
    IF ~Truthy(name) \/ ~IsInstanceStr(name)
    THEN [exc |-> "ValueError", categories |-> table]
    ELSE IF keywords.t # "list"
    THEN [exc |-> "ValueError", categories |-> table]
    ELSE IF \E k \in 1..Len(keywords.items) : ~IsInstanceStr(keywords.items[k])
    THEN [exc |-> "AttributeError", categories |-> table]
    ELSE [exc |-> "",
          categories |-> SetItem(table, NameOf(name.s),
                                 [k \in 1..Len(keywords.items) |->
                                     lower(keywords.items[k].s)])]

\* the default table is a dict display evaluated in every __init__ call: no
\* two instances constructed by default hold the same dict or the same lists
DefaultTableShared == FALSE

\* what the categories accessor hands out. PostCategorizer: dict(self._categories),
\* a new dict whose values are the table's own lists (shared). KeywordCategorizer:
\* the attribute, which is the table itself (same).
categories(c) ==
    [same |-> c.cls = "KeywordCategorizer",
     entries |-> [i \in 1..Len(c.categories) |->
                    [name |-> c.categories[i].name,
                     kws |-> c.categories[i].kws,
                     shared |-> TRUE]]]

\* the table after list.append(kw) on the list it holds under name
AppendTo(table, name, kw) ==
    [i \in 1..Len(table) |->
        IF table[i].name = name
        THEN [table[i] EXCEPT !.kws = Append(@, kw)] ELSE table[i]]

-----------------------------------------------------------------------------
(* TrendAnalyzer *)

RECURSIVE SumSeq(_)
SumSeq(s) == IF s = <<>> THEN 0 ELSE Head(s) + SumSeq(Tail(s))

\* the keys of agg: the table's categories, then "other" if the table lacks it
AggKeys(c) ==
    LET names == [i \in 1..Len(c.categories) |-> c.categories[i].name]
    IN IF \E i \in 1..Len(names) : names[i] = "other"
       THEN names ELSE Append(names, "other")

\* groups[cat]: the engagement scores of the posts categorize maps to cat,
\* cats[i] being what categorize gave for ps[i]
Group(cats, ps, cat) ==
    SelectSeq([i \in 1..Len(ps) |-> [cat |-> cats[i].val,
                                      e |-> engagement_score_default(ps[i])]],
              LAMBDA x : x.cat = cat)

\* statistics.mean(scores), and 0.0 for no scores
MeanOrZero(g) ==
    IF g = <<>> THEN Frac(0, 1) ELSE Frac(SumSeq([i \in 1..Len(g) |-> g[i].e]), Len(g))

\* aggregate_semester_data: the first categorize that raises ends the call
aggregate_semester_data(c, ps) ==
    LET cats == [i \in 1..Len(ps) |-> categorize(c, ps[i])]
        keys == AggKeys(c)
    IN IF \E i \in 1..Len(ps) : cats[i].exc # ""
       THEN [exc |-> "ValueError", val |-> <<>>]
       ELSE [exc |-> "",
             val |-> [k \in 1..Len(keys) |->
                        LET g == Group(cats, ps, keys[k])
                        IN [cat |-> keys[k],
                            count |-> Len(g),
                            avg_engagement |-> MeanOrZero(g)]]]

\* the posts categorize was called on before aggregate_semester_data ended
Visited(c, ps) ==
    {i \in 1..Len(ps) : \A j \in 1..(i - 1) : categorize(c, ps[j]).exc = ""}

\* category_counts: one count per key, the table's categories first and
\* "other" after them if the table lacks it; a categorize that raises ends it
category_counts(c, ps) ==
    LET cats == [i \in 1..Len(ps) |-> categorize(c, ps[i])]
        keys == AggKeys(c)
    IN IF \E i \in 1..Len(ps) : cats[i].exc # ""
       THEN [exc |-> "ValueError", val |-> <<>>]
       ELSE [exc |-> "",
             val |-> [k \in 1..Len(keys) |->
                        [cat |-> keys[k],
                         count |-> Cardinality({i \in 1..Len(ps) :
                                                  cats[i].val = keys[k]})]]]

\* sorted(posts, key=..., reverse=True) places a post after every post whose
\* key is at least its own: posts with equal keys keep their order. The
\* sorted list is given by the positions the posts have in ps.
InsertDescBeforeTies(sorted, i, ps) ==
    LET e(j) == engagement_score_default(ps[j])
        k == Cardinality({a \in 1..Len(sorted) : e(sorted[a]) > e(i)})
    IN SubSeq(sorted, 1, k) \o <<i>> \o SubSeq(sorted, k + 1, Len(sorted))
InsertDesc(sorted, i, ps) ==
    LET e(j) == engagement_score_default(ps[j])
        k == Cardinality({a \in 1..Len(sorted) : e(sorted[a]) >= e(i)})
    IN SubSeq(sorted, 1, k) \o <<i>> \o SubSeq(sorted, k + 1, Len(sorted))

RECURSIVE SortDescPrefix(_, _)
SortDescPrefix(ps, m) ==
    IF m = 0 THEN <<>> ELSE InsertDesc(SortDescPrefix(ps, m - 1), m, ps)

\* s[:n]: a negative n counts from the end
SliceTo(s, n) ==
    LET stop == IF n >= 0 THEN n ELSE Len(s) + n
    IN SubSeq(s, 1, IF stop > Len(s) THEN Len(s) ELSE IF stop < 0 THEN 0 ELSE stop)

\* get_top_posts: the positions in ps of the posts returned, in order
get_top_posts(ps, n) == SliceTo(SortDescPrefix(ps, Len(ps)), n)

\* the number a run of decimal digits stands for
DigitSeq == <<"0", "1", "2", "3", "4", "5", "6", "7", "8", "9">>
DigitVal(ch) == (CHOOSE k \in 1..10 : DigitSeq[k] = ch) - 1

RECURSIVE ParseInt(_)
ParseInt(s) ==
    IF s = <<>> THEN 0 ELSE ParseInt(SubSeq(s, 1, Len(s) - 1)) * 10 + DigitVal(s[Len(s)])

\* DATE_RE: four digits, a dash, two digits, a dash, two digits
MatchesDateRe(s) ==
    /\ Len(s) = 10
    /\ \A k \in {1, 2, 3, 4, 6, 7, 9, 10} : s[k] \in DigitChars
    /\ s[5] = "-"
    /\ s[8] = "-"

IsLeap(y) == (y % 4 = 0 /\ y % 100 # 0) \/ y % 400 = 0

DaysInMonth(y, m) ==
    IF m = 2 THEN (IF IsLeap(y) THEN 29 ELSE 28)
    ELSE IF m \in {4, 6, 9, 11} THEN 30 ELSE 31

\* datetime.strptime(s, "%Y-%m-%d") of a string that matches DATE_RE: the
\* year, month and day, or a ValueError for a date the calendar lacks
strptime(s) ==
    LET y == ParseInt(SubSeq(s, 1, 4))
        m == ParseInt(SubSeq(s, 6, 7))
        d == ParseInt(SubSeq(s, 9, 10))
    IN IF y >= 1 /\ m \in 1..12 /\ d >= 1 /\ d <= DaysInMonth(y, m)
       THEN [exc |-> "", y |-> y, m |-> m, d |-> d]
       ELSE [exc |-> "ValueError", y |-> 0, m |-> 0, d |-> 0]

\* PostValidator.is_valid_date
is_valid_date(v) ==
    /\ IsInstanceStr(v)
    /\ MatchesDateRe(v.s)
    /\ strptime(v.s).exc = ""

\* the days from 1970-01-01 to the date y-m-d of the proleptic Gregorian calendar
DaysFromEpoch(y, m, d) ==
    LET yy == IF m <= 2 THEN y - 1 ELSE y
        era == yy \div 400
        yoe == yy - era * 400
        mp == IF m > 2 THEN m - 3 ELSE m + 9
        doy == (153 * mp + 2) \div 5 + d - 1
        doe == yoe * 365 + yoe \div 4 - yoe \div 100 + doy
    IN era * 146097 + doe - 719468

SecondsPerDay == 86400

\* int(dt.timestamp()) of the naive datetime "days after the epoch plus secs
\* seconds": a naive datetime is read as local time, utcoffset being the
\* seconds the local time zone is ahead of UTC
Timestamp(days, secs, utcoffset) == days * SecondsPerDay + secs - utcoffset

\* filter_posts_by_date: the positions in ps of the posts kept, in order
filter_posts_by_date(ps, start, end, utcoffset) ==
    IF ~(is_valid_date(start) /\ is_valid_date(end))
    THEN [exc |-> "ValueError", val |-> <<>>]
    ELSE LET s == strptime(start.s)
             e == strptime(end.s)
             start_ts == Timestamp(DaysFromEpoch(s.y, s.m, s.d), 0, utcoffset)
             end_ts == Timestamp(DaysFromEpoch(e.y, e.m, e.d) + 1, -1, utcoffset)
         IN [exc |-> "",
             val |-> SelectSeq([i \in 1..Len(ps) |-> i],
                               LAMBDA i : /\ start_ts <= ps[i].created_utc.n
                                          /\ ps[i].created_utc.n <= end_ts)]

\* wk.get(cat, 0)
GetOrOne(wk, cat) == IF cat \in DOMAIN wk THEN wk[cat] ELSE 1
Get(wk, cat) == IF cat \in DOMAIN wk THEN wk[cat] ELSE 0

\* the percentage change of one step
PctChangeNoGuard(prev, curr) ==
    IF prev = 0 THEN Inf ELSE Frac((curr - prev) * 100, prev)
PctChange(prev, curr) ==
    IF prev = 0
    THEN IF curr # 0 THEN Inf ELSE Frac(0, 1)
    ELSE Frac((curr - prev) * 100, prev)

\* compare_trends_over_time: a dict keyed by the categories of all snapshots
compare_trends_over_time(wd) ==
    LET cats == UNION {DOMAIN wd[i] : i \in 1..Len(wd)}
        vals(cat) == [i \in 1..Len(wd) |-> Get(wd[i], cat)]
    IN [cat \in cats |->
          [pct_changes |-> [i \in 1..(Len(wd) - 1) |->
                               PctChange(vals(cat)[i], vals(cat)[i + 1])],
           latest |-> vals(cat)[Len(wd)]]]

\* compare_trends_over_time on whatever the caller hands over: a snapshot is
\* a dict or not (ismap), and a dict maps categories to Python values (d)
IsNumber(v) == v.t \in {"int", "bool", "float"}

\* prev == 0
EqualsZero(v) == IsNumber(v) /\ v.n = 0

\* wk.get(cat, 0)
GetAny(wk, cat) == IF cat \in DOMAIN wk.d THEN wk.d[cat] ELSE PyInt(0)

\* the step raises: curr - prev is evaluated when prev == 0 is false
StepRaises(prev, curr) == ~EqualsZero(prev) /\ ~(IsNumber(prev) /\ IsNumber(curr))

PctChangeAny(prev, curr) ==
    IF EqualsZero(prev)
    THEN IF ~EqualsZero(curr) THEN Inf ELSE Frac(0, 1)
    ELSE Frac((curr.n - prev.n) * 100, prev.n)

compare_trends_any(wd) ==
    LET maps == {i \in 1..Len(wd) : wd[i].ismap}
        cats == UNION {DOMAIN wd[i].d : i \in maps}
        vals(cat) == [i \in 1..Len(wd) |-> GetAny(wd[i], cat)]
    IN IF \E i \in 1..Len(wd) : ~wd[i].ismap
       THEN [exc |-> "AttributeError", val |-> <<>>]
       ELSE IF \E cat \in cats, i \in 1..(Len(wd) - 1) :
                  StepRaises(vals(cat)[i], vals(cat)[i + 1])
       THEN [exc |-> "TypeError", val |-> <<>>]
       ELSE [exc |-> "",
             val |-> [cat \in cats |->
                        [pct_changes |-> [i \in 1..(Len(wd) - 1) |->
                                            PctChangeAny(vals(cat)[i], vals(cat)[i + 1])],
                         latest |-> vals(cat)[Len(wd)]]]]

-----------------------------------------------------------------------------
(* The state: the live posts, the Categorizer the TrendAnalyzer holds, the *)
(* weekly snapshots handed to compare_trends_over_time, what the last call *)
(* raised or returned, a second Categorizer instance (None for none), and  *)
(* the mapping the categories accessor handed out last (None for none).    *)

NoRet == [op |-> "", exc |-> "", arg |-> <<>>, val |-> <<>>]

\* all sequences over S of length at most n
SeqsUpTo(S, n) == UNION {[1..k -> S] : k \in 0..n}

\* RedditPost(...) / SponsoredPost(...)
NewPost(kind, title, body, score, num_comments, created_utc) ==
    LET given == [kind |-> kind, title |-> title, body |-> body, score |-> score,
                  num_comments |-> num_comments, created_utc |-> created_utc]
    IN /\ Len(posts) < MaxPosts
       /\ IF InitRaises(title, body, score, num_comments, created_utc)
          THEN /\ posts' = posts
               /\ ret' = [op |-> "RedditPost", exc |-> "ValueError",
                          arg |-> given, val |-> 0]
          ELSE /\ posts' = Append(posts, MakePost(kind, title, body, score,
                                                  num_comments, created_utc))
               /\ ret' = [op |-> "RedditPost", exc |-> "",
                          arg |-> given, val |-> Len(posts) + 1]
       /\ UNCHANGED <<categorizer, weekly, other, view>>

\* PostValidator.validate_post_data(rec)
ValidatePostData(rec) ==
    /\ ret' = [op |-> "validate_post_data",
               exc |-> IF validate_post_data_raises(rec) THEN "ValueError" ELSE "",
               arg |-> rec,
               val |-> ~validate_post_data_raises(rec)]
    /\ UNCHANGED <<posts, categorizer, weekly, other, view>>

\* posts[i].engagement_score(w_upvote, w_comment)
EngagementScore(i, w_upvote, w_comment) ==
    /\ ret' = [op |-> "engagement_score", exc |-> "",
               arg |-> <<i, w_upvote, w_comment>>,
               val |-> engagement_score(posts[i], w_upvote, w_comment)]
    /\ UNCHANGED <<posts, categorizer, weekly, other, view>>

\* posts[i].engagement_score()
EngagementScoreDefault(i) ==
    /\ ret' = [op |-> "engagement_score()", exc |-> "", arg |-> <<i>>,
               val |-> engagement_score_default(posts[i])]
    /\ UNCHANGED <<posts, categorizer, weekly, other, view>>

\* posts[i].clean_text()
CleanText(i) ==
    /\ posts' = [posts EXCEPT ![i] = AfterCleanText(@)]
    /\ ret' = [op |-> "clean_text", exc |-> "", arg |-> <<i>>,
               val |-> clean_text(posts[i])]
    /\ UNCHANGED <<categorizer, weekly, other, view>>

\* categorizer.categorize(posts[i]): clean_text is called first and caches
Categorize(i) ==
    /\ posts' = [posts EXCEPT ![i] = AfterCleanText(@)]
    /\ LET r == categorize(categorizer, posts[i])
       IN ret' = [op |-> "categorize", exc |-> r.exc, arg |-> <<i>>, val |-> r.val]
    /\ UNCHANGED <<categorizer, weekly, other, view>>

\* TrendAnalyzer(categorizer).aggregate_semester_data(posts)
Aggregate ==
    /\ posts' = [i \in 1..Len(posts) |->
                    IF i \in Visited(categorizer, posts)
                    THEN AfterCleanText(posts[i]) ELSE posts[i]]
    /\ LET r == aggregate_semester_data(categorizer, posts)
       IN ret' = [op |-> "aggregate_semester_data", exc |-> r.exc,
                  arg |-> <<>>, val |-> r.val]
    /\ UNCHANGED <<categorizer, weekly, other, view>>

\* categorizer.category_counts(posts)
CategoryCounts ==
    /\ posts' = [i \in 1..Len(posts) |->
                    IF i \in Visited(categorizer, posts)
                    THEN AfterCleanText(posts[i]) ELSE posts[i]]
    /\ LET r == category_counts(categorizer, posts)
       IN ret' = [op |-> "category_counts", exc |-> r.exc,
                  arg |-> <<>>, val |-> r.val]
    /\ UNCHANGED <<categorizer, weekly, other, view>>

\* TrendAnalyzer.get_top_posts(posts, n)
GetTopPosts(n) ==
    /\ ret' = [op |-> "get_top_posts", exc |-> "", arg |-> <<n>>,
               val |-> get_top_posts(posts, n)]
    /\ UNCHANGED <<posts, categorizer, weekly, other, view>>

\* TrendAnalyzer.filter_posts_by_date(posts, start, end) on a machine whose
\* local time zone is utcoffset seconds ahead of UTC
FilterPostsByDate(start, end, utcoffset) ==
    /\ LET r == filter_posts_by_date(posts, start, end, utcoffset)
       IN ret' = [op |-> "filter_posts_by_date", exc |-> r.exc,
                  arg |-> [start |-> start, end |-> end, utcoffset |-> utcoffset],
                  val |-> r.val]
    /\ UNCHANGED <<posts, categorizer, weekly, other, view>>

\* TrendAnalyzer.compare_trends_over_time(weekly)
CompareTrends ==
    /\ ret' = [op |-> "compare_trends_over_time", exc |-> "", arg |-> <<>>,
               val |-> compare_trends_over_time(weekly)]
    /\ UNCHANGED <<posts, categorizer, weekly, other, view>>

\* TrendAnalyzer.compare_trends_over_time(weekly), weekly being any list
CompareTrendsAny ==
    /\ LET r == compare_trends_any(weekly)
       IN ret' = [op |-> "compare_trends_over_time", exc |-> r.exc, arg |-> <<>>,
                  val |-> r.val]
    /\ UNCHANGED <<posts, categorizer, weekly, other, view>>

\* categorizer.add_category(name, keywords); a list the accessor handed out
\* is no longer the table's once the table holds a new list under the name
AddCategory(name, keywords) ==
    /\ categorizer.cls = "PostCategorizer"
    /\ LET r == add_category(categorizer.categories, name, keywords)
       IN /\ categorizer' = [categorizer EXCEPT !.categories = r.categories]
          /\ other' = IF other # None /\ other[1].same_table
                      THEN Some([other[1] EXCEPT !.c.categories = r.categories])
                      ELSE other
          /\ view' = IF view # None /\ r.exc = ""
                     THEN Some([view[1] EXCEPT !.entries =
                              [i \in 1..Len(@) |->
                                  IF @[i].name = NameOf(name.s)
                                  THEN [@[i] EXCEPT !.shared = FALSE] ELSE @[i]]])
                     ELSE view
          /\ ret' = [op |-> "add_category", exc |-> r.exc,
                     arg |-> [name |-> name, keywords |-> keywords,
                              before |-> categorizer.categories],
                     val |-> <<>>]
    /\ UNCHANGED <<posts, weekly>>

\* m = categorizer.categories
Categories ==
    /\ view' = Some(categories(categorizer))
    /\ ret' = [op |-> "categories", exc |-> "", arg |-> <<>>, val |-> <<>>]
    /\ UNCHANGED <<posts, categorizer, weekly, other>>

\* m[name] = kws on the mapping m the accessor handed out
ViewSetItem(name, kws) ==
    /\ view # None
    /\ view' = Some([view[1] EXCEPT !.entries =
                        LET t == SetItem(@, name, kws)
                        IN [i \in 1..Len(t) |->
                              IF t[i].name = name
                              THEN [name |-> name, kws |-> kws, shared |-> view[1].same]
                              ELSE t[i]]])
    /\ categorizer' = IF view[1].same
                      THEN [categorizer EXCEPT !.categories = SetItem(@, name, kws)]
                      ELSE categorizer
    /\ ret' = [op |-> "m[name] = kws", exc |-> "",
               arg |-> [name |-> name, before |-> categorizer.categories],
               val |-> <<>>]
    /\ UNCHANGED <<posts, weekly, other>>

\* m[name].append(kw) on the mapping m the accessor handed out
ViewAppend(name, kw) ==
    /\ view # None
    /\ \E i \in 1..Len(view[1].entries) :
          /\ view[1].entries[i].name = name
          /\ view' = Some([view[1] EXCEPT !.entries = AppendTo(@, name, kw)])
          /\ categorizer' = IF view[1].same \/ view[1].entries[i].shared
                            THEN [categorizer EXCEPT !.categories = AppendTo(@, name, kw)]
                            ELSE categorizer
    /\ ret' = [op |-> "m[name].append(kw)", exc |-> "",
               arg |-> [name |-> name, before |-> categorizer.categories],
               val |-> <<>>]
    /\ UNCHANGED <<posts, weekly, other>>

\* posts[i].to_dict()
ToDict(i) ==
    /\ ret' = [op |-> "to_dict", exc |-> "", arg |-> <<i>>, val |-> to_dict(posts[i])]
    /\ UNCHANGED <<posts, categorizer, weekly, other, view>>

\* DataStore.save_posts(posts, f) followed by DataStore.load_posts(f)
SaveAndLoad ==
    /\ ret' = [op |-> "load_posts", exc |-> "", arg |-> <<>>,
               val |-> load_posts(save_posts(posts))]
    /\ UNCHANGED <<posts, categorizer, weekly, other, view>>

-----------------------------------------------------------------------------
(* Construction and validation of posts *)

CtorTitles == {PyStr(<<>>), PyStr(<<"a">>), PyNone}
CtorBodies == {PyStr(<<"b">>), PyNone}
CtorScores == {PyInt(2), PyBool(TRUE), PyFloat(1)}
CtorComments == {PyInt(-1), PyInt(1), PyBool(TRUE), PyFloat(1)}
CtorCreated == {PyInt(-1), PyInt(5), PyBool(TRUE), PyFloat(1)}

PostDicts ==
    {[isdict |-> TRUE,
      d |-> [title |-> t, score |-> s, num_comments |-> n, created_utc |-> c]] :
        t \in {PyStr(<<"a">>), PyInt(1)}, s \in CtorScores,
        n \in {PyInt(1), PyBool(FALSE)}, c \in {PyInt(5), PyBool(TRUE)}}
    \cup {[isdict |-> TRUE,
           d |-> [title |-> PyStr(<<"a">>), score |-> PyInt(2), num_comments |-> PyInt(1)]],
          [isdict |-> FALSE, d |-> <<>>]}

InitCtor ==
    /\ posts = <<>>
    /\ categorizer = PostCategorizer_init(None)
    /\ weekly = <<>>
    /\ ret = NoRet
    /\ other = None
    /\ view = None

NextCtor ==
    \/ \E kind \in PostKinds, title \in CtorTitles, body \in CtorBodies,
          score \in CtorScores, num_comments \in CtorComments,
          created_utc \in CtorCreated :
            NewPost(kind, title, body, score, num_comments, created_utc)
    \/ \E rec \in PostDicts : ValidatePostData(rec)

SpecCtor == InitCtor /\ [][NextCtor]_vars

-----------------------------------------------------------------------------
(* Engagement scores *)

\* the weights 0, 0.5, 1, ..., MaxHalfWeight / 2
Weights == {Frac(k, 2) : k \in 0..MaxHalfWeight}

ScorePosts ==
    {MakePost(kind, PyStr(<<"a">>), PyStr(<<>>), PyInt(sc), PyInt(nc), PyInt(0)) :
        kind \in PostKinds, sc \in (-MaxScore)..MaxScore, nc \in (-1)..MaxScore}

InitScore ==
    /\ posts \in {<<p>> : p \in ScorePosts}
    /\ categorizer = PostCategorizer_init(None)
    /\ weekly = <<>>
    /\ ret = NoRet
    /\ other = None
    /\ view = None

NextScore ==
    \/ \E i \in 1..Len(posts), wu \in Weights, wc \in Weights : EngagementScore(i, wu, wc)
    \/ \E i \in 1..Len(posts) : EngagementScoreDefault(i)

SpecScore == InitScore /\ [][NextScore]_vars

-----------------------------------------------------------------------------
(* Cleaned text *)

TextAlphabet == {"a", "B", "1", "_", " ", "\t", "?", "-"}

TextPosts ==
    {MakePost("RedditPost", PyStr(t), b, PyInt(1), PyInt(0), PyInt(0)) :
        t \in SeqsUpTo(TextAlphabet, MaxTitleLen) \ {<<>>},
        b \in {PyNone, PyStr(<<"?", "B">>)}}

InitText ==
    /\ posts \in {<<p>> : p \in TextPosts}
    /\ categorizer = PostCategorizer_init(None)
    /\ weekly = <<>>
    /\ ret = NoRet
    /\ other = None
    /\ view = None

NextText ==
    \/ \E i \in 1..Len(posts) : CleanText(i)
    \/ \E i \in 1..Len(posts) : Categorize(i)
    \/ \E i \in 1..Len(posts) : EngagementScoreDefault(i)
    \/ Aggregate

SpecText == InitText /\ [][NextText]_vars

-----------------------------------------------------------------------------
(* Categorization *)

CatNames == {"question", "news", "other"}

kw_how == <<"h", "o", "w">>
kw_How == <<"H", "o", "w">>
kw_why == <<"w", "h", "y">>
kw_news == <<"n", "e", "w", "s">>

KeywordLists ==
    {<<>>, <<kw_how>>, <<kw_How>>, <<kw_why>>, <<kw_news>>,
     <<kw_how, kw_why>>, <<kw_news, kw_why>>}

\* the dicts of at most n categories
Tables(n) ==
    {t \in SeqsUpTo([name : CatNames, kws : KeywordLists], n) :
        \A i, j \in 1..Len(t) : t[i].name = t[j].name => i = j}

\* the arguments a Categorizer is constructed with: none, or a table
TableArgs == {None} \cup {Some(t) : t \in Tables(MaxCats)}

Categorizers ==
    {PostCategorizer_init(a) : a \in TableArgs}
    \cup {KeywordCategorizer_init(a) : a \in TableArgs}

CatTitles ==
    {<<"H", "o", "w", " ", "t", "o", " ", "l", "e", "a", "r", "n", " ", "X", "?">>,
     <<"h", "o", "w", "e", "v", "e", "r">>,
     <<"h", "o", "w", " ", "w", "h", "y">>,
     <<"N", "e", "w", "s">>,
     <<"w", "h", "y", " ", "h", "o", "w", " ", "n", "e", "w", "s">>,
     <<"B", "r", "e", "a", "k", "i", "n", "g", " ", "n", "e", "w", "s", " ", "u", "p", "d", "a", "t", "e">>,
     <<"z", "z", "z">>}

CatPosts ==
    {MakePost("RedditPost", PyStr(t), PyNone, PyInt(1), PyInt(0), PyInt(0)) : t \in CatTitles}

InitCat ==
    /\ posts \in {<<p>> : p \in CatPosts}
    /\ categorizer \in Categorizers
    /\ weekly = <<>>
    /\ ret = NoRet
    /\ other = None
    /\ view = None

NextCat ==
    \/ \E i \in 1..Len(posts) : Categorize(i)
    \/ \E i \in 1..Len(posts) : CleanText(i)

SpecCat == InitCat /\ [][NextCat]_vars

-----------------------------------------------------------------------------
(* Semester aggregates *)

AggTitles == {kw_how, kw_news, <<"z", "z", "z">>}

AggPosts ==
    {MakePost(kind, PyStr(t), PyNone, PyInt(sc), PyInt(nc), PyInt(0)) :
        kind \in PostKinds, t \in AggTitles, sc \in {1, 2}, nc \in {0, 1}}

AggCategorizers ==
    {PostCategorizer_init(None),
     KeywordCategorizer_init(None),
     PostCategorizer_init(Some(<<>>)),
     PostCategorizer_init(Some(<<[name |-> "question", kws |-> <<kw_how>>],
                                 [name |-> "news", kws |-> <<kw_news>>]>>)),
     KeywordCategorizer_init(Some(<<[name |-> "other", kws |-> <<>>],
                                    [name |-> "news", kws |-> <<kw_news>>]>>))}

InitAgg ==
    /\ posts \in SeqsUpTo(AggPosts, MaxPosts)
    /\ categorizer \in AggCategorizers
    /\ weekly = <<>>
    /\ ret = NoRet
    /\ other = None
    /\ view = None

NextAgg ==
    \/ Aggregate
    \/ CategoryCounts
    \/ \E i \in 1..Len(posts) : Categorize(i)

SpecAgg == InitAgg /\ [][NextAgg]_vars

-----------------------------------------------------------------------------
(* Top posts *)

TopPosts ==
    {MakePost(kind, PyStr(<<"a">>), PyNone, PyInt(sc), PyInt(nc), PyInt(0)) :
        kind \in PostKinds, sc \in {1, 2}, nc \in {0, 1}}

InitTop ==
    /\ posts \in SeqsUpTo(TopPosts, MaxPosts)
    /\ categorizer = PostCategorizer_init(None)
    /\ weekly = <<>>
    /\ ret = NoRet
    /\ other = None
    /\ view = None

NextTop == \E n \in 0..MaxTop : GetTopPosts(n)

SpecTop == InitTop /\ [][NextTop]_vars

-----------------------------------------------------------------------------
(* Filtering by date *)

DateArgs ==
    {PyStr(<<"1", "9", "7", "0", "-", "0", "1", "-", "0", "2">>),
     PyStr(<<"1", "9", "7", "0", "-", "0", "1", "-", "0", "3">>),
     PyStr(<<"1", "9", "7", "0", "-", "0", "2", "-", "3", "0">>),
     PyStr(<<"1", "9", "7", "0", "-", "1", "-", "0", "2">>),
     PyNone}

\* UTC, New York (EST) and Tokyo
UtcOffsets == {0, -18000, 32400}

\* posts created at the ends of 1970-01-02 and 1970-01-03 UTC, a second
\* before and a second after
DatePosts ==
    {MakePost("RedditPost", PyStr(<<"a">>), PyNone, PyInt(1), PyInt(0), PyInt(t)) :
        t \in {SecondsPerDay - 1, SecondsPerDay, 2 * SecondsPerDay - 1,
               2 * SecondsPerDay, 3 * SecondsPerDay - 1, 3 * SecondsPerDay}}

InitDate ==
    /\ posts \in SeqsUpTo(DatePosts, MaxPosts)
    /\ categorizer = PostCategorizer_init(None)
    /\ weekly = <<>>
    /\ ret = NoRet
    /\ other = None
    /\ view = None

NextDate ==
    \E start, end \in DateArgs, utcoffset \in UtcOffsets :
        FilterPostsByDate(start, end, utcoffset)

SpecDate == InitDate /\ [][NextDate]_vars

-----------------------------------------------------------------------------
(* Weekly trends *)

TrendCats == {"question", "news"}

\* the dicts {category: count} over some of the categories
Snapshots == UNION {[D -> 0..MaxCount] : D \in SUBSET TrendCats}

InitTrend ==
    /\ posts = <<>>
    /\ categorizer = PostCategorizer_init(None)
    /\ weekly \in SeqsUpTo(Snapshots, MaxWeeks)
    /\ ret = NoRet
    /\ other = None
    /\ view = None

NextTrend == CompareTrends

SpecTrend == InitTrend /\ [][NextTrend]_vars

-----------------------------------------------------------------------------
(* Weekly trends on input of any shape *)

AnyCounts == {PyInt(0), PyInt(MaxCount), PyFloat(1), PyStr(<<"5">>), PyNone}

AnySnapshots ==
    {[ismap |-> FALSE, d |-> <<>>]}
    \cup {[ismap |-> TRUE, d |-> d] : d \in UNION {[D -> AnyCounts] : D \in SUBSET TrendCats}}

InitTrendAny ==
    /\ posts = <<>>
    /\ categorizer = PostCategorizer_init(None)
    /\ weekly \in SeqsUpTo(AnySnapshots, MaxWeeks)
    /\ ret = NoRet
    /\ other = None
    /\ view = None

NextTrendAny == CompareTrendsAny

SpecTrendAny == InitTrendAny /\ [][NextTrendAny]_vars

-----------------------------------------------------------------------------
(* The category table under add_category *)

NameArgs ==
    {PyStr(<<"n", "e", "w", "s">>), PyStr(<<"o", "t", "h", "e", "r">>),
     PyStr(<<"m", "e", "m", "e">>), PyStr(<<>>), PyNone, PyInt(5)}

KeywordArgs ==
    {[t |-> "list", items |-> <<>>],
     [t |-> "list", items |-> <<PyStr(kw_How)>>],
     [t |-> "list", items |-> <<PyStr(kw_news), PyStr(kw_why)>>],
     [t |-> "list", items |-> <<PyStr(kw_how), PyInt(5)>>],
     [t |-> "tuple", items |-> <<PyStr(kw_how)>>],
     [t |-> "NoneType", items |-> <<>>]}

TableCategorizers ==
    {PostCategorizer_init(None),
     KeywordCategorizer_init(None),
     PostCategorizer_init(Some(<<>>)),
     PostCategorizer_init(Some(<<[name |-> "news", kws |-> <<kw_news>>],
                                 [name |-> "question", kws |-> <<kw_how>>]>>)),
     PostCategorizer_init(Some(<<[name |-> "other", kws |-> <<>>],
                                 [name |-> "question", kws |-> <<kw_how>>]>>)),
     KeywordCategorizer_init(Some(<<[name |-> "news", kws |-> <<kw_news>>]>>))}

InitTable ==
    /\ posts = <<>>
    /\ categorizer \in TableCategorizers
    /\ weekly = <<>>
    /\ ret = NoRet
    /\ other = None
    /\ view = None

NextTable == \E name \in NameArgs, keywords \in KeywordArgs : AddCategory(name, keywords)

SpecTable == InitTable /\ [][NextTable]_vars

-----------------------------------------------------------------------------
(* Persistence *)

StorePosts ==
    {MakePost(kind, PyStr(<<"a">>), b, PyInt(sc), PyInt(nc), cu) :
        kind \in PostKinds, b \in {PyNone, PyStr(<<"b">>)},
        sc \in {1, 2}, nc \in {0, 1}, cu \in {PyInt(5), PyBool(TRUE)}}

InitStore ==
    /\ posts \in SeqsUpTo(StorePosts, MaxPosts)
    /\ categorizer = PostCategorizer_init(None)
    /\ weekly = <<>>
    /\ ret = NoRet
    /\ other = None
    /\ view = None

NextStore ==
    \/ \E i \in 1..Len(posts) : ToDict(i)
    \/ SaveAndLoad

SpecStore == InitStore /\ [][NextStore]_vars

-----------------------------------------------------------------------------
(* The engine operations together, on posts whose order a sort changes *)

EnginePosts ==
    {MakePost("RedditPost", PyStr(kw_How), PyNone, PyInt(1), PyInt(0),
              PyInt(SecondsPerDay)),
     MakePost("RedditPost", PyStr(kw_news), PyStr(<<"?">>), PyInt(2), PyInt(1),
              PyInt(2 * SecondsPerDay)),
     MakePost("SponsoredPost", PyStr(<<"Z", "_">>), PyNone, PyInt(1), PyInt(1),
              PyInt(3 * SecondsPerDay))}

EngineDates ==
    {PyStr(<<"1", "9", "7", "0", "-", "0", "1", "-", "0", "2">>),
     PyStr(<<"1", "9", "7", "0", "-", "0", "1", "-", "0", "3">>)}

InitEngine ==
    /\ posts \in SeqsUpTo(EnginePosts, MaxPosts)
    /\ categorizer \in {PostCategorizer_init(None), KeywordCategorizer_init(None)}
    /\ weekly = <<[question |-> 1, news |-> 0], [question |-> 2]>>
    /\ ret = NoRet
    /\ other = None
    /\ view = None

NextEngine ==
    \/ \E i \in 1..Len(posts) : Categorize(i)
    \/ CategoryCounts
    \/ \E n \in 0..MaxTop : GetTopPosts(n)
    \/ \E start, end \in EngineDates : FilterPostsByDate(start, end, 0)
    \/ Aggregate
    \/ CompareTrends
    \/ \E i \in 1..Len(posts) : EngagementScoreDefault(i)
    \/ \E i \in 1..Len(posts) : CleanText(i)
    \/ \E i \in 1..Len(posts) : ToDict(i)

SpecEngine == InitEngine /\ [][NextEngine]_vars

-----------------------------------------------------------------------------
(* Two Categorizer instances, and the mapping the accessor hands out *)

\* a second instance constructed by default, of the given class
OtherByDefault(cls) ==
    Some([c |-> IF cls = "PostCategorizer"
                THEN PostCategorizer_init(None) ELSE KeywordCategorizer_init(None),
          same_table |-> DefaultTableShared])

AliasNames == {"news", "misc"}
kw_zzz == <<"z", "z", "z">>

InitAlias ==
    /\ posts = <<>>
    /\ categorizer \in {PostCategorizer_init(None), KeywordCategorizer_init(None),
                        PostCategorizer_init(Some(<<[name |-> "news", kws |-> <<kw_news>>],
                                                    [name |-> "other", kws |-> <<>>]>>))}
    /\ weekly = <<>>
    /\ ret = NoRet
    /\ other \in {OtherByDefault(cls) : cls \in {"PostCategorizer", "KeywordCategorizer"}}
    /\ view = None

\* the caller adds the keyword zzz, once to a list
NextAlias ==
    \/ \E name \in AliasNames :
          AddCategory(PyStr(IF name = "news" THEN kw_news ELSE <<"m", "i", "s", "c">>),
                      [t |-> "list", items |-> <<PyStr(kw_How)>>])
    \/ Categories
    \/ \E name \in AliasNames : ViewSetItem(name, <<kw_zzz>>)
    \/ \E name \in AliasNames :
          /\ view # None
          /\ \A i \in 1..Len(view[1].entries) :
                view[1].entries[i].name = name =>
                    \A k \in 1..Len(view[1].entries[i].kws) :
                        view[1].entries[i].kws[k] # kw_zzz
          /\ ViewAppend(name, kw_zzz)

SpecAlias == InitAlias /\ [][NextAlias]_vars

-----------------------------------------------------------------------------
(* The whole program, on posts and weekly counts after the example run *)

ExamplePosts ==
    {[kind |-> "RedditPost",
      title |-> PyStr(<<"H", "o", "w", " ", "t", "o", " ", "X", "?">>),
      body |-> PyStr(<<"A", "d", "v", "i", "c", "e">>),
      score |-> PyInt(50), num_comments |-> PyInt(20), created_utc |-> PyInt(1689136000)],
     [kind |-> "RedditPost",
      title |-> PyStr(<<"B", "r", "e", "a", "k", "i", "n", "g">>),
      body |-> PyNone,
      score |-> PyInt(150), num_comments |-> PyInt(10), created_utc |-> PyInt(1688272000)],
     [kind |-> "SponsoredPost",
      title |-> PyStr(<<"B", "u", "y", "!">>),
      body |-> PyStr(<<"O", "f", "f", "e", "r">>),
      score |-> PyInt(30), num_comments |-> PyInt(5), created_utc |-> PyInt(1689568000)],
     [kind |-> "RedditPost",
      title |-> PyStr(<<>>),
      body |-> PyNone,
      score |-> PyInt(1), num_comments |-> PyInt(0), created_utc |-> PyInt(0)]}

ExampleWeekly ==
    <<[question |-> 5, news |-> 2, meme |-> 1],
      [question |-> 4, news |-> 5, meme |-> 3],
      [question |-> 6, news |-> 3, meme |-> 2]>>

Init ==
    /\ posts = <<>>
    /\ categorizer \in {PostCategorizer_init(None), KeywordCategorizer_init(None)}
    /\ weekly \in {SubSeq(ExampleWeekly, 1, k) : k \in 0..3}
    /\ ret = NoRet
    /\ other = None
    /\ view = None

Next ==
    \/ \E a \in ExamplePosts :
          NewPost(a.kind, a.title, a.body, a.score, a.num_comments, a.created_utc)
    \/ \E i \in 1..Len(posts) : EngagementScoreDefault(i)
    \/ \E i \in 1..Len(posts) : CleanText(i)
    \/ \E i \in 1..Len(posts) : Categorize(i)
    \/ Aggregate
    \/ CompareTrends
    \/ \E i \in 1..Len(posts) : ToDict(i)
    \/ CategoryCounts
    \/ GetTopPosts(2)
    \/ Categories

Spec == Init /\ [][Next]_vars

-----------------------------------------------------------------------------
(* Properties *)

\* w occurs in text as a whole word: delimited on both sides by the ends of
\* the text or by characters that are not word characters
OccursAsWholeWord(w, text) ==
    \E i \in 1..(Len(text) - Len(w) + 1) :
        /\ SubSeq(text, i, i + Len(w) - 1) = w
        /\ i = 1 \/ ~IsWordChar(text[i - 1])
        /\ i + Len(w) - 1 = Len(text) \/ ~IsWordChar(text[i + Len(w)])

\* the cleaned text of the post the last categorize was called on
CategorizedText == posts[ret.arg[1]].cleaned_text[1]

\* the largest hit count of the last categorize, and the categories that have it
BestCount(h) == CHOOSE m \in {h[i].n : i \in 1..Len(h)} : \A i \in 1..Len(h) : h[i].n <= m
Tied(h) == {i \in 1..Len(h) : h[i].n = BestCount(h)}
FirstOf(S) == CHOOSE i \in S : \A j \in S : i <= j

TieAtNonZero ==
    /\ ret.op = "categorize"
    /\ categorizer.categories # <<>>
    /\ LET h == Hits(categorizer, CategorizedText)
       IN BestCount(h) > 0 /\ Cardinality(Tied(h)) >= 2

\* C1: when two or more categories share the highest keyword hit count (as the
\* categorizer counts hits) and it is not zero, categorize returns the one of
\* them that comes first in the table's insertion order.
C1_TieBreakFirstInserted ==
    TieAtNonZero =>
        LET h == Hits(categorizer, CategorizedText)
        IN ret.exc = "" /\ ret.val = h[FirstOf(Tied(h))].cat

\* C1 witness: a tie at a non-zero count was resolved to the first of the tied
C1_Witness ==
    /\ TieAtNonZero
    /\ ret.val = categorizer.categories[1].name
    /\ ret.val # "other"

\* no keyword of any category occurs in the cleaned text as a whole word
NoKeywordMatches ==
    \A i \in 1..Len(categorizer.categories) :
        \A k \in 1..Len(categorizer.categories[i].kws) :
            ~OccursAsWholeWord(lower(categorizer.categories[i].kws[k]), CategorizedText)

\* C2: a post whose cleaned text matches no keyword of any category of the
\* table is categorized as the catch-all "other", whatever the table's order.
C2_CatchAllFallback ==
    (ret.op = "categorize" /\ NoKeywordMatches) => (ret.exc = "" /\ ret.val = "other")

\* C3: a keyword counts as a hit exactly when it occurs in the cleaned text as
\* a whole word, whatever the letter case it is stored with in the table.
C3_WholeWordCaseInsensitive ==
    ret.op = "categorize" =>
        \A i \in 1..Len(categorizer.categories) :
            LET kws == categorizer.categories[i].kws
            IN Hits(categorizer, CategorizedText)[i].n =
                  Cardinality({k \in 1..Len(kws) :
                      OccursAsWholeWord(lower(kws[k]), CategorizedText)})

\* the posts of the list that categorize maps to cat
PostsOf(cat) == {i \in 1..Len(posts) : categorize(categorizer, posts[i]).val = cat}

RECURSIVE SumOver(_, _)
SumOver(S, f) ==
    IF S = {} THEN 0 ELSE LET x == CHOOSE y \in S : TRUE IN f[x] + SumOver(S \ {x}, f)

\* C4: aggregate reports every category of the table and the catch-all, each
\* with the number of posts categorize maps to it and the mean of their
\* default engagement scores, 0.0 for no posts; it never fails.
C4_AggregateCountsAndMeans ==
    ret.op = "aggregate_semester_data" =>
        /\ ret.exc = ""
        /\ {ret.val[k].cat : k \in 1..Len(ret.val)} =
              {categorizer.categories[i].name : i \in 1..Len(categorizer.categories)}
                  \cup {"other"}
        /\ \A k \in 1..Len(ret.val) :
              LET e == ret.val[k]
                  scores == [i \in 1..Len(posts) |-> engagement_score_default(posts[i])]
              IN /\ e.count = Cardinality(PostsOf(e.cat))
                 /\ e.avg_engagement.den > 0
                 /\ e.count > 0 =>
                       e.avg_engagement.num * e.count =
                           e.avg_engagement.den * SumOver(PostsOf(e.cat), scores)
                 /\ e.count = 0 => e.avg_engagement.num = 0

\* the count of cat in week i: 0 when the snapshot does not hold it
CountIn(i, cat) == IF cat \in DOMAIN weekly[i] THEN weekly[i][cat] ELSE 0

\* C5: each reported change is (curr - prev) / prev * 100 for prev # 0, and
\* for prev = 0 it is +infinity when curr # 0 and 0.0 when curr = 0; the call
\* never fails.
C5_PctChangeRule ==
    ret.op = "compare_trends_over_time" =>
        /\ ret.exc = ""
        /\ \A cat \in DOMAIN ret.val :
              \A i \in 1..Len(ret.val[cat].pct_changes) :
                 LET prev == CountIn(i, cat)
                     curr == CountIn(i + 1, cat)
                     pct == ret.val[cat].pct_changes[i]
                 IN /\ prev # 0 => /\ pct.den > 0
                                   /\ pct.num * prev = pct.den * (curr - prev) * 100
                    /\ (prev = 0 /\ curr # 0) => pct = Inf
                    /\ (prev = 0 /\ curr = 0) => (pct.num = 0 /\ pct.den > 0)

\* C5 witness: a result holding a change from zero and a change from non-zero
C5_Witness ==
    /\ ret.op = "compare_trends_over_time"
    /\ Len(weekly) >= 2
    /\ \E cat \in DOMAIN ret.val :
          /\ CountIn(1, cat) = 0 /\ CountIn(2, cat) # 0
          /\ ret.val[cat].pct_changes[1] = Inf
    /\ \E cat \in DOMAIN ret.val :
          /\ CountIn(1, cat) = 2 /\ CountIn(2, cat) = 1
          /\ ret.val[cat].pct_changes[1] = [num |-> -50, den |-> 1]

\* C6: the result has one entry per category of any snapshot; each holds
\* k - 1 changes for k snapshots and the final snapshot's count as latest, a
\* category a snapshot lacks counting as 0; no snapshots give the empty result.
C6_TrendShape ==
    ret.op = "compare_trends_over_time" =>
        /\ DOMAIN ret.val = UNION {DOMAIN weekly[i] : i \in 1..Len(weekly)}
        /\ weekly = <<>> => DOMAIN ret.val = {}
        /\ \A cat \in DOMAIN ret.val :
              /\ Len(ret.val[cat].pct_changes) = Len(weekly) - 1
              /\ ret.val[cat].latest =
                    IF cat \in DOMAIN weekly[Len(weekly)]
                    THEN weekly[Len(weekly)][cat] ELSE 0
              /\ \A i \in 1..(Len(weekly) - 1) :
                    (cat \notin DOMAIN weekly[i] /\ CountIn(i + 1, cat) # 0)
                        => ret.val[cat].pct_changes[i] = Inf

\* C6 witness: two snapshots, a category the final one lacks reported with
\* latest 0 and one change
C6_Witness ==
    /\ ret.op = "compare_trends_over_time"
    /\ Len(weekly) >= 2
    /\ \E cat \in DOMAIN ret.val :
          /\ cat \notin DOMAIN weekly[Len(weekly)]
          /\ ret.val[cat].latest = 0
          /\ Len(ret.val[cat].pct_changes) = Len(weekly) - 1

\* the inputs the contract of construction rejects
TitleEmpty(a) == a.title.t # "str" \/ a.title.s = <<>>
NotInteger(v) == v.t # "int"
ContractRejects(a) ==
    \/ TitleEmpty(a)
    \/ NotInteger(a.score)
    \/ NotInteger(a.num_comments) \/ a.num_comments.n < 0
    \/ a.created_utc.t = "int" /\ a.created_utc.n < 0

\* C7: construction raises, and leaves no post, when the title is empty, the
\* score is not an integer, num_comments is not a non-negative integer or
\* created_utc is negative; any other input with an integer created_utc gives
\* a post that holds the given fields (a body of None being the empty text).
C7_ConstructionValidates ==
    ret.op = "RedditPost" =>
        /\ ContractRejects(ret.arg) => ret.exc = "ValueError"
        /\ ret.exc = "ValueError" => \A i \in 1..Len(posts) : ret.val # i
        /\ (~ContractRejects(ret.arg) /\ ret.arg.created_utc.t = "int") =>
              /\ ret.exc = ""
              /\ posts[ret.val].title = ret.arg.title
              /\ posts[ret.val].body =
                    (IF ret.arg.body = PyNone THEN PyStr(<<>>) ELSE ret.arg.body)
              /\ posts[ret.val].score = ret.arg.score
              /\ posts[ret.val].num_comments = ret.arg.num_comments
              /\ posts[ret.val].created_utc = ret.arg.created_utc

IntegerFields == {"score", "num_comments", "created_utc"}

\* C8: a boolean in score, num_comments or created_utc makes construction
\* raise, and makes validate_post_data raise instead of returning True.
C8_BooleanNeverAnInteger ==
    /\ (ret.op = "RedditPost" /\ \E f \in IntegerFields : ret.arg[f].t = "bool")
          => ret.exc = "ValueError"
    /\ (/\ ret.op = "validate_post_data"
        /\ ret.arg.isdict
        /\ \E f \in IntegerFields \cap DOMAIN ret.arg.d : ret.arg.d[f].t = "bool")
          => (ret.exc = "ValueError" /\ ret.val # TRUE)

\* C9: engagement_score(w_upvote, w_comment) is the integer nearest to
\* score * w_upvote + num_comments * w_comment, a tie going to the even one;
\* without arguments it is score + 2 * num_comments for a standard post and
\* score + 3 * num_comments for a sponsored one.
C9_EngagementScore ==
    /\ ret.op = "engagement_score" =>
          LET p == posts[ret.arg[1]]
              wu == ret.arg[2]
              wc == ret.arg[3]
              d == wu.den * wc.den
              n == p.score.n * wu.num * wc.den + p.num_comments.n * wc.num * wu.den
          IN /\ 2 * Abs(ret.val * d - n) <= d
             /\ 2 * Abs(ret.val * d - n) = d => ret.val % 2 = 0
    /\ ret.op = "engagement_score()" =>
          LET p == posts[ret.arg[1]]
          IN ret.val = p.score.n
                         + (IF p.kind = "SponsoredPost" THEN 3 ELSE 2) * p.num_comments.n

\* C9 witness: a sponsored post with comments scored with its default weights
C9_Witness ==
    /\ ret.op = "engagement_score()"
    /\ posts[ret.arg[1]].kind = "SponsoredPost"
    /\ posts[ret.arg[1]].num_comments.n > 0
    /\ ret.val = posts[ret.arg[1]].score.n + 3 * posts[ret.arg[1]].num_comments.n

\* C10: clean_text returns the cached string, and the cached string holds no
\* punctuation character, no two consecutive spaces and no leading or
\* trailing whitespace.
C10_CleanTextCachedAndClean ==
    /\ ret.op = "clean_text" => ret.val = posts[ret.arg[1]].cleaned_text[1]
    /\ \A i \in 1..Len(posts) :
          posts[i].cleaned_text # None =>
             LET c == posts[i].cleaned_text[1]
             IN /\ \A k \in 1..Len(c) : c[k] \notin PunctChars
                /\ \A k \in 1..(Len(c) - 1) : ~(c[k] = " " /\ c[k + 1] = " ")
                /\ c # <<>> => (~IsSpaceChar(c[1]) /\ ~IsSpaceChar(c[Len(c)]))

\* C11: category_counts returns a mapping with every category of the table
\* and the catch-all, each mapped to the number of posts that categorize
\* assigns to it (zero included), so that the counts sum to the number of posts.
C11_CategoryCounts ==
    ret.op = "category_counts" =>
        /\ ret.exc = ""
        /\ \A i \in 1..Len(categorizer.categories) :
              \E k \in 1..Len(ret.val) : ret.val[k].cat = categorizer.categories[i].name
        /\ \E k \in 1..Len(ret.val) : ret.val[k].cat = "other"
        /\ \A k \in 1..Len(ret.val) :
              ret.val[k].count = Cardinality(PostsOf(ret.val[k].cat))
        /\ SumSeq([k \in 1..Len(ret.val) |-> ret.val[k].count]) = Len(posts)

\* the post at position i comes before the post at position j in the stable
\* descending order: a higher default engagement score, or an equal one and
\* an earlier place in the input
Before(i, j) ==
    \/ engagement_score_default(posts[i]) > engagement_score_default(posts[j])
    \/ /\ engagement_score_default(posts[i]) = engagement_score_default(posts[j])
       /\ i < j

\* C12: get_top_posts returns the first n posts (all of them if there are
\* fewer than n) of the list sorted by default engagement score in descending
\* order, posts with equal scores keeping their original relative order.
C12_TopPostsStable ==
    ret.op = "get_top_posts" =>
        LET r == ret.val
            n == ret.arg[1]
        IN /\ Len(r) = IF Len(posts) < n THEN Len(posts) ELSE n
           /\ \A a \in 1..Len(r) : r[a] \in 1..Len(posts)
           /\ \A a, b \in 1..Len(r) : a < b => Before(r[a], r[b])
           /\ \A j \in 1..Len(posts) :
                 (\A a \in 1..Len(r) : r[a] # j) =>
                     \A a \in 1..Len(r) : Before(r[a], j)

\* of two different posts with equal scores, the top one is asked for and the
\* earlier one is returned
C12_Witness ==
    /\ ret.op = "get_top_posts"
    /\ ret.arg = <<1>>
    /\ ret.val = <<1>>
    /\ Len(posts) = 2
    /\ posts[1] # posts[2]
    /\ engagement_score_default(posts[1]) = engagement_score_default(posts[2])

\* the first second of the day a well-formed date names, in UTC
DayStartUTC(date) ==
    LET p == strptime(date.s)
    IN DaysFromEpoch(p.y, p.m, p.d) * SecondsPerDay

\* C13: for well-formed dates start and end, filter_posts_by_date keeps a post
\* iff start 00:00:00 UTC <= created_utc <= end 23:59:59 UTC, whatever the
\* local time zone of the machine, keeps the input order, and returns nothing
\* when start is after end.
C13_FilterByDateUTC ==
    (/\ ret.op = "filter_posts_by_date"
     /\ is_valid_date(ret.arg.start)
     /\ is_valid_date(ret.arg.end)) =>
        LET lo == DayStartUTC(ret.arg.start)
            hi == DayStartUTC(ret.arg.end) + SecondsPerDay - 1
            r == ret.val
        IN /\ ret.exc = ""
           /\ \A i \in 1..Len(posts) :
                 (\E a \in 1..Len(r) : r[a] = i) <=>
                     (lo <= posts[i].created_utc.n /\ posts[i].created_utc.n <= hi)
           /\ \A a, b \in 1..Len(r) : a < b => r[a] < r[b]
           /\ lo > hi => r = <<>>

\* a weekly input with an element that is no category-to-count mapping, or
\* with a count that is no integer
Malformed(wd) ==
    \E i \in 1..Len(wd) :
        \/ ~wd[i].ismap
        \/ \E cat \in DOMAIN wd[i].d : wd[i].d[cat].t # "int"

\* C14: compare_trends_over_time fails, and returns no result, whenever the
\* weekly input is malformed.
C14_CompareFailsFast ==
    (ret.op = "compare_trends_over_time" /\ Malformed(weekly)) =>
        /\ ret.exc # ""
        /\ ret.val = <<>>

\* the arguments of add_category that the contract rejects: an empty name, or
\* keywords that are no sequence, or a sequence with an item that is no string
NameIsEmpty(name) == ~Truthy(name)
NotSeqOfStrings(keywords) ==
    \/ keywords.t \notin {"list", "tuple"}
    \/ \E k \in 1..Len(keywords.items) : ~IsInstanceStr(keywords.items[k])

\* C15: add_category fails with a validation error whenever name is empty or
\* keywords is not a sequence of strings, and the table is then as it was
\* before the call.
C15_AddCategoryRejects ==
    (/\ ret.op = "add_category"
     /\ (NameIsEmpty(ret.arg.name) \/ NotSeqOfStrings(ret.arg.keywords))) =>
        /\ ret.exc = "ValueError"
        /\ categorizer.categories = ret.arg.before

\* the names of a table, in insertion order
Names(table) == [i \in 1..Len(table) |-> table[i].name]

\* the keyword list a table holds under name
KwsOf(table, name) ==
    LET i == CHOOSE i \in 1..Len(table) : table[i].name = name IN table[i].kws

\* C16: a successful add_category(name, keywords) makes the entry for name the
\* given keywords in lowercase, replacing any previous entry, and leaves every
\* other category's keywords and the relative order of the categories already
\* present unchanged.
C16_AddCategoryEffect ==
    (ret.op = "add_category" /\ ret.exc = "") =>
        LET name == NameOf(ret.arg.name.s)
            before == ret.arg.before
            after == categorizer.categories
            given == ret.arg.keywords.items
        IN /\ Cardinality({i \in 1..Len(after) : after[i].name = name}) = 1
           /\ KwsOf(after, name) = [k \in 1..Len(given) |-> lower(given[k].s)]
           /\ \A i \in 1..Len(before) :
                 before[i].name # name =>
                     /\ \E j \in 1..Len(after) : after[j].name = before[i].name
                     /\ KwsOf(after, before[i].name) = before[i].kws
           /\ \A j \in 1..Len(after) :
                 after[j].name # name => \E i \in 1..Len(before) : before[i].name = after[j].name
           /\ SelectSeq(Names(after), LAMBDA x : \E i \in 1..Len(before) : before[i].name = x)
                 = Names(before)

\* an entry that is not the last one is replaced by a keyword given in capitals
C16_Witness ==
    /\ ret.op = "add_category"
    /\ ret.exc = ""
    /\ ret.arg.keywords.items = <<PyStr(kw_How)>>
    /\ Len(ret.arg.before) >= 2
    /\ ret.arg.before[1].name = NameOf(ret.arg.name.s)
    /\ ret.arg.before[1].kws # <<kw_how>>
    /\ categorizer.categories[1].kws = <<kw_how>>

\* C19: the table of a Categorizer contains a catch-all category "other" whose
\* keyword list is empty, after construction with the default table or with a
\* table of the caller's and after any add_category calls.
C19_CatchAllAlwaysPresent ==
    \E i \in 1..Len(categorizer.categories) :
        /\ categorizer.categories[i].name = "other"
        /\ categorizer.categories[i].kws = <<>>

\* the raw fields of a post
RawFields(p) ==
    [title |-> p.title, body |-> p.body, score |-> p.score,
     num_comments |-> p.num_comments, created_utc |-> p.created_utc]

\* C17: to_dict followed by the re-construction that load_posts makes yields,
\* for every post, standard or sponsored, a post with the same raw fields and
\* the same engagement_score().
C17_RoundTrip ==
    ret.op = "load_posts" =>
        /\ Len(ret.val) = Len(posts)
        /\ \A i \in 1..Len(posts) :
              /\ RawFields(ret.val[i]) = RawFields(posts[i])
              /\ engagement_score_default(ret.val[i]) = engagement_score_default(posts[i])

\* C18: no engine operation (categorize, category_counts, get_top_posts,
\* filter_posts_by_date, aggregate_semester_data, compare_trends_over_time,
\* engagement_score, clean_text, to_dict) changes its inputs: the raw fields of
\* every post, the posts of the list and their order, and the weekly
\* snapshots stay as they are; only the cleaned-text cache of a post changes.
C18_InputsNotMutated ==
    [][/\ Len(posts') = Len(posts)
       /\ \A i \in 1..Len(posts) :
             /\ RawFields(posts'[i]) = RawFields(posts[i])
             /\ posts'[i] = [posts[i] EXCEPT !.cleaned_text = posts'[i].cleaned_text]
       /\ weekly' = weekly
       /\ categorizer' = categorizer]_vars

\* get_top_posts has returned the two posts of the list in the other order,
\* after a call that filled the cleaned-text cache of the first
C18_Witness ==
    /\ ret.op = "get_top_posts"
    /\ ret.val = <<2, 1>>
    /\ posts[1].cleaned_text # None
    /\ posts[2].cleaned_text = None

\* C20: every instance owns its table: add_category calls on one instance
\* leave the table of the other instance, constructed by default, as it was
\* (and with it whatever categorize and category_counts give there), and a
\* change made to the mapping the categories accessor handed out leaves the
\* instance's table as it was.
C20_IndependentTables ==
    /\ other[1].c.categories = DefaultCategories
    /\ ret.op \in {"m[name] = kws", "m[name].append(kw)"} =>
          categorizer.categories = ret.arg.before

====
